---- MODULE Spec2Model ----
(***************************************************************************)
(* Model of X86Intel.trace_test_case (src/src/executor.py): one call that  *)
(* loads a batch of inputs into the x86-executor kernel module, runs       *)
(* num_measurements measurement rounds, and merges the per-input hardware  *)
(* traces and performance-counter readings.                                *)
(*                                                                         *)
(* A hardware trace is a 64-bit bitmap.  It is represented by the set of   *)
(* its set bit positions (0 = lowest bit), so that `&` is intersection and *)
(* `|` is union.  CSV cells and integer literals of the source are decimal *)
(* digit sequences, converted by IntBits.                                  *)
(***************************************************************************)
EXTENDS Integers, Sequences, FiniteSets, TLC

\* ------------------------------------------------------------------ bounds
\* len(inputs) * num_measurements never exceeds MaxRows
MaxRows == 4
\* CONF.max_outliers ranges over 0..MaxOutliers
MaxOutliers == 2

\* --------------------------------------------------------- integer helpers
\* d is a decimal digit sequence, most significant digit first
IsZero(d) == \A k \in 1..Len(d) : d[k] = 0

\* d \div 2 by long division; the carry into digit k is d[k-1] % 2
Halve(d) ==
    [k \in 1..Len(d) |-> ((IF k = 1 THEN 0 ELSE d[k-1] % 2) * 10 + d[k]) \div 2]

RECURSIVE BitsFrom(_, _)
BitsFrom(d, pos) ==
    IF IsZero(d) THEN {}
    ELSE (IF d[Len(d)] % 2 = 1 THEN {pos} ELSE {}) \cup BitsFrom(Halve(d), pos + 1)

\* int("<decimal digits>"): the set of bit positions of the value
IntBits(d) == BitsFrom(d, 0)

\* ------------------------------------------------- values the device emits
\* CACHE_MAP cells: "1" and "9223372036854775810" (2^63 + 2)
CacheMapCells ==
    { <<1>>, <<9,2,2,3,3,7,2,0,3,6,8,5,4,7,7,5,8,1,0>> }

\* (pfc1, pfc2, pfc3) cells of a row
PfcCells == { <<1, 2, 3>>, <<2, 0, 1>> }

\* a CSV row that has the CACHE_MAP column
Rows == [CACHE_MAP : CacheMapCells, pfc : PfcCells]

\* int(row['CACHE_MAP']) for every cell the device emits
ParsedCacheMap == [c \in CacheMapCells |-> IntBits(c)]

\* the literal 9223372036854775807 of `trace &= 9223372036854775807`
MutIgnoreMask == IntBits(<<9,2,2,3,3,7,2,0,3,6,8,5,4,7,7,5,8,0,6>>)
IgnoreMask == IntBits(<<9,2,2,3,3,7,2,0,3,6,8,5,4,7,7,5,8,0,7>>)

VARIABLES
    inputs,                 \* the batch: a sequence of Input identities
    round_count,            \* the num_measurements argument as passed
    num_measurements,       \* the local after the default is applied
    CONF,                   \* [num_measurements, max_outliers, ignore_first_cache_line]
    coverage,               \* self.coverage is set
    pc,                     \* position in trace_test_case
    round,                  \* iterations of the measurement loop started
    i,                      \* row index of enumerate(reader), 0-based
    traces,                 \* traces[i]: trace history of input i
    pfc_readings,           \* pfc_readings[i][s]: history of counter slot s
    merged_traces,
    filtered_pfc_readings,
    or_events,              \* or_events[i]: history indices at which `|=` ran
    max_events,             \* max_events[i]: history indices at which max() ran
    reported,               \* reported[r]: rows read from round r's stream
    devlog,                 \* device accesses, in order
    hooklog,                \* arguments of coverage.executor_hook calls
    result                  \* [kind, value, error]

vars == << inputs, round_count, num_measurements, CONF, coverage, pc, round, i,
           traces, pfc_readings, merged_traces, filtered_pfc_readings,
           or_events, max_events, reported, devlog, hooklog, result >>

N == Len(inputs)

Pending == [kind |-> "pending", value |-> << >>, error |-> ""]
Returned(v) == [kind |-> "return", value |-> v, error |-> ""]
Raised(e) == [kind |-> "error", value |-> << >>, error |-> e]

Dev(op, arg) == [op |-> op, arg |-> arg]

\* the round count the call runs with
Effective(rc, conf) == IF rc = 0 THEN conf ELSE rc

Init ==
    /\ \E n \in 0..MaxRows : inputs = [k \in 1..n |-> k]
    /\ round_count \in 0..MaxRows
    /\ CONF \in [num_measurements : {0, 2},
                 max_outliers : 0..MaxOutliers,
                 ignore_first_cache_line : BOOLEAN]
    \* the configured default is read only when the argument is 0
    /\ round_count # 0 => CONF.num_measurements = 2
    /\ Len(inputs) * Effective(round_count, CONF.num_measurements) <= MaxRows
    /\ coverage \in BOOLEAN
    /\ num_measurements = round_count
    /\ pc = "check_inputs"
    /\ round = 0
    /\ i = 0
    /\ traces = << >>
    /\ pfc_readings = << >>
    /\ merged_traces = << >>
    /\ filtered_pfc_readings = << >>
    /\ or_events = << >>
    /\ max_events = << >>
    /\ reported = << >>
    /\ devlog = << >>
    /\ hooklog = << >>
    /\ result = Pending

\* the locals and logs a step may leave alone
Config == << inputs, round_count, CONF, coverage >>
Histories == << traces, pfc_readings, reported >>
Merged == << merged_traces, filtered_pfc_readings, or_events, max_events >>

\* LOGGER.error(msg): reports the error and ends the call
LOGGER_error(e) ==
    /\ result' = Raised(e)
    /\ pc' = "done"

\* `if not inputs: return []`
MutIsDummyCall == FALSE
IsDummyCall == Len(inputs) = 0

CheckInputs ==
    /\ pc = "check_inputs"
    /\ IF IsDummyCall
       THEN /\ result' = Returned(<< >>)
            /\ pc' = "done"
       ELSE /\ pc' = "probe"
            /\ UNCHANGED result
    /\ UNCHANGED << Config, num_measurements, round, i, Histories, Merged,
                    devlog, hooklog >>

\* `if not os.path.isfile("/proc/x86-executor")`, isfile being the probe's answer
MutNotReady(isfile) == FALSE
NotReady(isfile) == ~isfile

Probe ==
    /\ pc = "probe"
    /\ \E isfile \in BOOLEAN :
         /\ devlog' = Append(devlog, Dev("probe", << isfile >>))
         /\ IF NotReady(isfile)
            THEN LOGGER_error("DeviceUnavailable")
            ELSE /\ pc' = "default"
                 /\ UNCHANGED result
    /\ UNCHANGED << Config, num_measurements, round, i, Histories, Merged, hooklog >>

\* `if num_measurements == 0: num_measurements = CONF.num_measurements`
MutDefaulted(nm) == nm
Defaulted(nm) == IF nm = 0 THEN CONF.num_measurements ELSE nm

DefaultRounds ==
    /\ pc = "default"
    /\ num_measurements' = Defaulted(num_measurements)
    /\ pc' = "announce"
    /\ UNCHANGED << Config, round, i, Histories, Merged, devlog, hooklog, result >>

\* the payload written where the count belongs
MutAnnounce ==
    /\ pc = "announce"
    /\ devlog' = Append(devlog, Dev("write_inputs", inputs))
    /\ pc' = "load"
    /\ UNCHANGED << Config, num_measurements, round, i, Histories, Merged,
                    hooklog, result >>

\* 1) Announce the number of inputs
Announce ==
    /\ pc = "announce"
    /\ devlog' = Append(devlog, Dev("write_n_inputs", << Len(inputs) >>))
    /\ pc' = "load"
    /\ UNCHANGED << Config, num_measurements, round, i, Histories, Merged,
                    hooklog, result >>

\* 2) Load the inputs: bytes().join(i.tobytes() for i in inputs)
Load ==
    /\ pc = "load"
    /\ devlog' = Append(devlog, Dev("write_inputs", inputs))
    /\ pc' = "check_load"
    /\ UNCHANGED << Config, num_measurements, round, i, Histories, Merged,
                    hooklog, result >>

\* `if f.readline() == '0\n'`, line being the count the device reports
MutLoadFailed(line) == FALSE
LoadFailed(line) == line = 0

\* 3) Check that the load was successful; then allocate the histories
CheckLoad ==
    /\ pc = "check_load"
    /\ \E line \in {0, Len(inputs)} :
         /\ devlog' = Append(devlog, Dev("read_n_inputs", << line >>))
         /\ IF LoadFailed(line)
            THEN /\ LOGGER_error("LoadRejected")
                 /\ UNCHANGED << traces, pfc_readings >>
            ELSE /\ traces' = [k \in 1..N |-> << >>]
                 /\ pfc_readings' = [k \in 1..N |-> << << >>, << >>, << >> >>]
                 /\ pc' = "loop"
                 /\ UNCHANGED result
    /\ UNCHANGED << Config, num_measurements, round, i, reported, Merged, hooklog >>

\* the loop left one iteration early
MutLoopExit ==
    /\ pc = "loop"
    /\ round >= num_measurements - 1
    /\ pc' = "after_loop"
    /\ UNCHANGED << Config, num_measurements, round, i, Histories, Merged,
                    devlog, hooklog, result >>

\* `for _ in range(num_measurements)`
LoopExit ==
    /\ pc = "loop"
    /\ round >= num_measurements
    /\ pc' = "after_loop"
    /\ UNCHANGED << Config, num_measurements, round, i, Histories, Merged,
                    devlog, hooklog, result >>

\* `if not reader.fieldnames or 'CACHE_MAP' not in reader.fieldnames`
MutNoTrace(has_cache_map) == FALSE
NoTrace(has_cache_map) == ~has_cache_map

\* a round without the trace column skipped instead of raising
MutMeasure ==
    /\ pc = "loop"
    /\ round < num_measurements
    /\ round' = round + 1
    /\ reported' = Append(reported, << >>)
    /\ i' = 0
    /\ \E has_cache_map \in BOOLEAN :
         /\ devlog' = Append(devlog, Dev("measure", << has_cache_map >>))
         /\ pc' = IF NoTrace(has_cache_map) THEN "loop" ELSE "rows"
    /\ UNCHANGED << Config, num_measurements, traces, pfc_readings, Merged,
                    hooklog, result >>

\* one loop iteration up to the header check: trigger the measurement and
\* open its output
Measure ==
    /\ pc = "loop"
    /\ round < num_measurements
    /\ round' = round + 1
    /\ reported' = Append(reported, << >>)
    /\ i' = 0
    /\ \E has_cache_map \in BOOLEAN :
         /\ devlog' = Append(devlog, Dev("measure", << has_cache_map >>))
         /\ IF NoTrace(has_cache_map)
            THEN /\ result' = Raised("NoOutput")
                 /\ pc' = "done"
            ELSE /\ pc' = "rows"
                 /\ UNCHANGED result
    /\ UNCHANGED << Config, num_measurements, traces, pfc_readings, Merged, hooklog >>

\* trace: HTrace = int(row['CACHE_MAP']); masked if ignore_first_cache_line
RowTrace(row) ==
    IF CONF.ignore_first_cache_line
    THEN ParsedCacheMap[row.CACHE_MAP] \cap IgnoreMask
    ELSE ParsedCacheMap[row.CACHE_MAP]

\* the trace appended twice per row
MutReadRow ==
    /\ pc = "rows"
    /\ \E row \in Rows :
         /\ reported' = [reported EXCEPT ![round] = Append(@, row)]
         /\ IF i >= N
            THEN /\ result' = Raised("IndexError")
                 /\ pc' = "done"
                 /\ UNCHANGED << i, traces, pfc_readings >>
            ELSE /\ traces' = [traces EXCEPT
                                  ![i + 1] = Append(Append(@, RowTrace(row)), RowTrace(row))]
                 /\ pfc_readings' =
                        [pfc_readings EXCEPT
                            ![i + 1] = [s \in 1..3 |-> Append(@[s], row.pfc[s])]]
                 /\ i' = i + 1
                 /\ UNCHANGED << pc, result >>
    /\ UNCHANGED << Config, num_measurements, round, Merged, devlog, hooklog >>

\* body of `for i, row in enumerate(reader)` for one row
ReadRow ==
    /\ pc = "rows"
    /\ \E row \in Rows :
         /\ reported' = [reported EXCEPT ![round] = Append(@, row)]
         /\ IF i >= N
            THEN \* traces[i] raises IndexError
                 /\ result' = Raised("IndexError")
                 /\ pc' = "done"
                 /\ UNCHANGED << i, traces, pfc_readings >>
            ELSE /\ traces' = [traces EXCEPT ![i + 1] = Append(@, RowTrace(row))]
                 /\ pfc_readings' =
                        [pfc_readings EXCEPT
                            ![i + 1] = [s \in 1..3 |-> Append(@[s], row.pfc[s])]]
                 /\ i' = i + 1
                 /\ UNCHANGED << pc, result >>
    /\ UNCHANGED << Config, num_measurements, round, Merged, devlog, hooklog >>

\* the reader is exhausted: next iteration of the measurement loop
EndOfRows ==
    /\ pc = "rows"
    /\ pc' = "loop"
    /\ UNCHANGED << Config, num_measurements, round, i, Histories, Merged,
                    devlog, hooklog, result >>

\* Counter(): a missing key counts 0
Counter(keys) == [v \in keys |-> 0]

Range(s) == { s[k] : k \in 1..Len(s) }

\* `elif num_occurrences[trace] == CONF.max_outliers + 1`
MutTraceQualifies(cnt) == cnt = CONF.max_outliers
TraceQualifies(cnt) == cnt = CONF.max_outliers + 1

\* `for trace in trace_list`, from history index k on
RECURSIVE MergeLoop(_, _, _, _, _)
MergeLoop(trace_list, k, num_occurrences, merged, events) ==
    IF k > Len(trace_list)
    THEN [merged |-> merged, events |-> events]
    ELSE LET trace == trace_list[k]
             occ == [num_occurrences EXCEPT ![trace] = @ + 1]
         IN  IF occ[trace] <= CONF.max_outliers
             THEN MergeLoop(trace_list, k + 1, occ, merged, events)
             ELSE IF TraceQualifies(occ[trace])
                  THEN MergeLoop(trace_list, k + 1, occ, merged \cup trace,
                                 Append(events, k))
                  ELSE MergeLoop(trace_list, k + 1, occ, merged, events)

\* `num_occurrences: Counter = Counter()` and the loop over one input's history
MutMergeOne(trace_list) ==
    MergeLoop(trace_list, 1, [v \in Range(trace_list) |-> 1], {}, << >>)
MergeOne(trace_list) == MergeLoop(trace_list, 1, Counter(Range(trace_list)), {}, << >>)

\* `t[0]` of `return [t[0] for t in traces]`
MutSingleTrace(t) == MergeOne(t).merged
SingleTrace(t) == t[1]

\* `[r[0][0], r[1][0], r[2][0]]` of the single-round hook call
MutRawTriple(r) == << r[1][1], 0, 0 >>
RawTriple(r) == << r[1][1], r[2][1], r[3][1] >>

\* `if num_measurements == 1:` hook on the raw counters, return the raw traces
AfterLoop ==
    /\ pc = "after_loop"
    /\ IF num_measurements = 1
       THEN IF coverage /\ \E k \in 1..N : \E s \in 1..3 : Len(pfc_readings[k][s]) = 0
            THEN \* r[s][0] raises IndexError
                 /\ result' = Raised("IndexError")
                 /\ pc' = "done"
                 /\ UNCHANGED hooklog
            ELSE /\ hooklog' =
                        IF coverage
                        THEN Append(hooklog,
                                    [k \in 1..N |-> RawTriple(pfc_readings[k])])
                        ELSE hooklog
                 /\ IF \E k \in 1..N : Len(traces[k]) = 0
                    THEN \* t[0] raises IndexError
                         result' = Raised("IndexError")
                    ELSE result' = Returned([k \in 1..N |-> SingleTrace(traces[k])])
                 /\ pc' = "done"
       ELSE /\ pc' = "merge"
            /\ UNCHANGED << hooklog, result >>
    /\ UNCHANGED << Config, num_measurements, round, i, Histories, Merged, devlog >>

\* a Counter that is not reset between inputs: the counts input k starts with
CarriedCounter(tr, k) ==
    [v \in UNION { Range(tr[j]) : j \in 1..Len(tr) } |->
        Cardinality({ jx \in { j \in 1..Len(tr) : j < k } \X (1..MaxRows + 1) :
                        jx[2] <= Len(tr[jx[1]]) /\ tr[jx[1]][jx[2]] = v })]

\* `for i, trace_list in enumerate(traces)` with a fresh Counter per input
MutMergeAll(tr) ==
    [k \in 1..Len(tr) |-> MergeLoop(tr[k], 1, CarriedCounter(tr, k), {}, << >>)]
MergeAll(tr) == [k \in 1..Len(tr) |-> MergeOne(tr[k])]

\* remove outliers and merge
Merge ==
    /\ pc = "merge"
    /\ merged_traces' = [k \in 1..N |-> MergeAll(traces)[k].merged]
    /\ or_events' = [k \in 1..N |-> MergeAll(traces)[k].events]
    /\ pc' = "filter"
    /\ UNCHANGED << Config, num_measurements, round, i, Histories,
                    filtered_pfc_readings, max_events, devlog, hooklog, result >>

\* max(filtered_pfc_readings[i][0], reading)
MutMax(a, b) == b
Max(a, b) == IF a >= b THEN a ELSE b

\* `num_occurrences[reading] <= CONF.max_outliers * 2`
MutPfcThreshold == CONF.max_outliers
PfcThreshold == CONF.max_outliers * 2

\* `for reading in reading_lists[0]`, from history index k on
RECURSIVE FilterLoop(_, _, _, _, _)
FilterLoop(readings, k, num_occurrences, filtered, events) ==
    IF k > Len(readings)
    THEN [filtered |-> filtered, events |-> events]
    ELSE LET reading == readings[k]
             occ == [num_occurrences EXCEPT ![reading] = @ + 1]
         IN  IF occ[reading] <= PfcThreshold
             THEN FilterLoop(readings, k + 1, occ, filtered, events)
             ELSE IF occ[reading] = PfcThreshold + 1
                  THEN FilterLoop(readings, k + 1, occ, Max(filtered, reading),
                                  Append(events, k))
                  ELSE FilterLoop(readings, k + 1, occ, filtered, events)

FilterOne(readings) == FilterLoop(readings, 1, Counter(Range(readings)), 0, << >>)

\* `filtered_pfc_readings = [[0, 0, 0] for _ in inputs]`, slot 0 then filtered
MutFilterAll(pfc) ==
    [k \in 1..Len(pfc) |-> [s \in 1..3 |-> FilterOne(pfc[k][s]).filtered]]
FilterAll(pfc) ==
    [k \in 1..Len(pfc) |-> << FilterOne(pfc[k][1]).filtered, 0, 0 >>]

\* same for PFC readings, except select max. values instead of merging
Filter ==
    /\ pc = "filter"
    /\ filtered_pfc_readings' = FilterAll(pfc_readings)
    /\ max_events' = [k \in 1..N |-> FilterOne(pfc_readings[k][1]).events]
    /\ pc' = "hook"
    /\ UNCHANGED << Config, num_measurements, round, i, Histories,
                    merged_traces, or_events, devlog, hooklog, result >>

\* the hook call left out
MutHook ==
    /\ pc = "hook"
    /\ pc' = "return"
    /\ UNCHANGED << Config, num_measurements, round, i, Histories, Merged,
                    devlog, hooklog, result >>

\* `if self.coverage: self.coverage.executor_hook(filtered_pfc_readings)`
Hook ==
    /\ pc = "hook"
    /\ hooklog' = IF coverage THEN Append(hooklog, filtered_pfc_readings) ELSE hooklog
    /\ pc' = "return"
    /\ UNCHANGED << Config, num_measurements, round, i, Histories, Merged,
                    devlog, result >>

\* `return merged_traces`
Return ==
    /\ pc = "return"
    /\ result' = Returned(merged_traces)
    /\ pc' = "done"
    /\ UNCHANGED << Config, num_measurements, round, i, Histories, Merged,
                    devlog, hooklog >>

Next ==
    \/ CheckInputs
    \/ Probe
    \/ DefaultRounds
    \/ Announce
    \/ Load
    \/ CheckLoad
    \/ LoopExit
    \/ Measure
    \/ ReadRow
    \/ EndOfRows
    \/ AfterLoop
    \/ Merge
    \/ Filter
    \/ Hook
    \/ Return

Spec == Init /\ [][Next]_vars

\* ------------------------------------------------------------- properties
\* number of occurrences of v in the sequence s
Occ(v, s) == Cardinality({ j \in 1..Len(s) : s[j] = v })

\* number of device accesses of kind op so far
Calls(op) == Cardinality({ e \in 1..Len(devlog) : devlog[e].op = op })

\* the call has returned a value (not raised)
ReturnedOk == pc = "done" /\ result.kind = "return"

\* the merge of lines 129-141 has run
MergeRan == pc \in {"filter", "hook", "return"}
            \/ (ReturnedOk /\ N > 0 /\ num_measurements # 1)

\* the counter filter of lines 143-156 has run
FilterRan == pc \in {"hook", "return"}
             \/ (ReturnedOk /\ N > 0 /\ num_measurements # 1)

\* the rounds whose stream held a row for input k, and the round that
\* produced entry j of input k's histories
RoundsWith(k) == { r \in 1..Len(reported) : Len(reported[r]) >= k }
RoundOf(k, j) ==
    CHOOSE r \in RoundsWith(k) : Cardinality({ q \in RoundsWith(k) : q <= r }) = j

\* the trace the device reported for input k in round r, as a bit set
RawTrace(r, k) == ParsedCacheMap[reported[r][k].CACHE_MAP]

\* the traces the device reported for input k, in round order
RawHistory(k) ==
    LET with == SelectSeq(reported, LAMBDA rows : Len(rows) >= k)
    IN  [j \in 1..Len(with) |-> ParsedCacheMap[with[j][k].CACHE_MAP]]

\* C1: with more than one round, a trace value of an input's history is
\* OR-ed into the input's merged trace iff it occurs more than max_outliers
\* times, exactly once, at the occurrence that brings its count to
\* max_outliers + 1; the returned trace is the OR of exactly those values.
C1_ThresholdMerge ==
    (MergeRan /\ num_measurements > 1) =>
        \A k \in 1..N :
            /\ merged_traces[k] =
                   UNION { v \in Range(traces[k]) : Occ(v, traces[k]) > CONF.max_outliers }
            /\ \A v \in Range(traces[k]) :
                   Cardinality({ e \in 1..Len(or_events[k]) :
                                   traces[k][or_events[k][e]] = v })
                       = IF Occ(v, traces[k]) > CONF.max_outliers THEN 1 ELSE 0
            /\ \A e \in 1..Len(or_events[k]) :
                   LET at == or_events[k][e]
                   IN  Occ(traces[k][at], SubSeq(traces[k], 1, at)) = CONF.max_outliers + 1
            /\ ReturnedOk => result.value[k] = merged_traces[k]

\* C1 witness: max_outliers = 1 and history [0b001, 0b001, 0b010, 0b010]
\* return 0b011
C1_Witness ==
    /\ ReturnedOk
    /\ CONF.max_outliers = 1
    /\ \E k \in 1..N :
         /\ traces[k] = << {0}, {0}, {1}, {1} >>
         /\ result.value[k] = {0, 1}

\* C2 as stated: a single-round call returns each input's trace exactly as
\* the device reported it, whatever ignore_first_cache_line is.
C2_RawUnmodified ==
    (ReturnedOk /\ N > 0 /\ num_measurements = 1) =>
        \A k \in 1..N : result.value[k] = RawTrace(1, k)

\* C2 amended: a single-round call returns, for each input, the trace the
\* device reported for it, with bit 63 cleared when ignore_first_cache_line
\* is set and unmodified otherwise, whatever max_outliers is.
C2_SingleRoundTrace ==
    (ReturnedOk /\ N > 0 /\ num_measurements = 1) =>
        /\ Len(result.value) = N
        /\ Len(reported) = 1
        /\ Len(reported[1]) = N
        /\ \A k \in 1..N :
             result.value[k] = IF CONF.ignore_first_cache_line
                               THEN RawTrace(1, k) \ {63}
                               ELSE RawTrace(1, k)

\* C2 witness: one round, max_outliers = 1, masking on, the device reports
\* 2^63 + 2 and the call returns 2
C2_Witness ==
    /\ ReturnedOk
    /\ num_measurements = 1
    /\ CONF.max_outliers = 1
    /\ CONF.ignore_first_cache_line
    /\ \E k \in 1..N : RawTrace(1, k) = {1, 63} /\ result.value[k] = {1}

\* C3 as stated: a call with round_count = 0 that returns, returns an empty
\* sequence and has made no count declaration, payload write or measurement.
C3_ZeroRoundsNoDevice ==
    (ReturnedOk /\ round_count = 0) =>
        /\ result.value = << >>
        /\ Calls("write_n_inputs") = 0
        /\ Calls("write_inputs") = 0
        /\ Calls("measure") = 0

\* C3 amended: a call with round_count = 0 runs with CONF.num_measurements
\* rounds: on an empty batch it returns an empty sequence without any device
\* access; on a non-empty batch that returns, it has declared the count and
\* written the payload once, triggered CONF.num_measurements measurements
\* and returns one trace per input.
C3_ZeroMeansDefault ==
    (ReturnedOk /\ round_count = 0) =>
        /\ N = 0 => result.value = << >> /\ devlog = << >>
        /\ N > 0 =>
             /\ num_measurements = CONF.num_measurements
             /\ Calls("write_n_inputs") = 1
             /\ Calls("write_inputs") = 1
             /\ Calls("measure") = CONF.num_measurements
             /\ Len(result.value) = N

\* C3 witness: round_count = 0 on a non-empty batch with a default of 2
\* rounds has measured twice
C3_Witness ==
    /\ ReturnedOk
    /\ round_count = 0
    /\ N > 0
    /\ CONF.num_measurements = 2
    /\ Calls("measure") = 2

\* C4: on an empty batch the call returns an empty sequence at once, for any
\* round_count: no probe, no device write, no measurement, no hook call.
C4_EmptyBatch ==
    N = 0 =>
        /\ pc \in {"check_inputs", "done"}
        /\ devlog = << >>
        /\ hooklog = << >>
        /\ pc = "done" => result = Returned(<< >>)

\* C4 witness: an empty batch with round_count > 0 and a coverage hook set
\* has returned
C4_Witness ==
    /\ N = 0
    /\ round_count > 0
    /\ coverage
    /\ pc = "done"
    /\ result.kind = "return"

\* C5 as stated: with ignore_first_cache_line set, bit 0 of every trace in
\* the histories is 0.
C5_Bit0Cleared ==
    CONF.ignore_first_cache_line =>
        \A k \in 1..Len(traces) : \A j \in 1..Len(traces[k]) : 0 \notin traces[k][j]

\* C5 amended: with ignore_first_cache_line set, every trace appended to a
\* history is the reported trace with bit 63 (the highest bit) cleared and
\* all other bits as reported, for every input and round, so bit 63 of every
\* returned trace is 0.
C5_Bit63Cleared ==
    CONF.ignore_first_cache_line =>
        /\ IgnoreMask = 0..62
        /\ \A k \in 1..Len(traces) :
             traces[k] = [j \in 1..Len(RawHistory(k)) |-> RawHistory(k)[j] \ {63}]
        /\ ReturnedOk => \A k \in 1..Len(result.value) : 63 \notin result.value[k]

\* C5 witness: masking on, the device reported 2^63 + 2 in every round for an
\* input and the merged trace returned for it is 2
C5_Witness ==
    /\ ReturnedOk
    /\ CONF.ignore_first_cache_line
    /\ num_measurements > 1
    /\ \E k \in 1..N :
         /\ Len(traces[k]) >= 2
         /\ \A j \in 1..Len(traces[k]) : RawTrace(RoundOf(k, j), k) = {1, 63}
         /\ result.value[k] = {1}

\* a measurement whose output had no CACHE_MAP column has been made
TraceColumnMissing ==
    \E e \in 1..Len(devlog) : devlog[e].op = "measure" /\ devlog[e].arg = << FALSE >>

\* C6: once a round's output lacks the CACHE_MAP column the batch is over
\* with a NoOutput error: that measurement is the last device access, no
\* trace is returned for any input and the coverage hook has not been called.
C6_NoOutputAborts ==
    TraceColumnMissing =>
        /\ pc = "done"
        /\ result = Raised("NoOutput")
        /\ devlog[Len(devlog)] = Dev("measure", << FALSE >>)
        /\ hooklog = << >>

\* C6 witness: the first round filled every input's history, the second
\* round had no CACHE_MAP column, and a coverage hook is set
C6_Witness ==
    /\ TraceColumnMissing
    /\ coverage
    /\ round = 2
    /\ N = 2
    /\ \A k \in 1..N : Len(traces[k]) = 1
    /\ result.kind = "error"

\* the readiness probe has answered that /proc/x86-executor is absent
ProbeFailed ==
    \E e \in 1..Len(devlog) : devlog[e].op = "probe" /\ devlog[e].arg = << FALSE >>

\* C7: when the readiness probe fails the call fails with DeviceUnavailable
\* and neither the count declaration nor the payload has been written and no
\* measurement has been triggered.
C7_ProbeFailure ==
    ProbeFailed =>
        /\ pc = "done"
        /\ result = Raised("DeviceUnavailable")
        /\ Calls("write_n_inputs") = 0
        /\ Calls("write_inputs") = 0
        /\ Calls("measure") = 0

\* C7 witness: a non-empty batch whose probe failed has ended in an error
C7_Witness ==
    /\ ProbeFailed
    /\ N > 0
    /\ round_count > 0
    /\ pc = "done"
    /\ result.kind = "error"

\* the device reported a count of zero when the declaration was re-read
LoadReportedZero ==
    \E e \in 1..Len(devlog) : devlog[e].op = "read_n_inputs" /\ devlog[e].arg = << 0 >>

\* C8: when the re-read count is zero the batch fails with LoadRejected, no
\* measurement round is triggered and no traces are returned.
C8_LoadRejected ==
    LoadReportedZero =>
        /\ pc = "done"
        /\ result = Raised("LoadRejected")
        /\ Calls("measure") = 0
        /\ hooklog = << >>

\* C8 witness: count and payload were written, the re-read count was zero
\* and the call has ended in an error
C8_Witness ==
    /\ LoadReportedZero
    /\ N > 0
    /\ num_measurements > 0
    /\ Calls("write_n_inputs") = 1
    /\ Calls("write_inputs") = 1
    /\ result.kind = "error"

\* C9 as stated: a call in which some round's stream held fewer or more rows
\* than there are inputs ends in an error instead of returning traces.
C9_ShapeMismatch ==
    (pc = "done" /\ \E r \in 1..Len(reported) : Len(reported[r]) # N) =>
        result.kind = "error"

\* the largest element of a finite set of naturals, 0 for the empty set
MaxOf(S) == IF S = {} THEN 0 ELSE CHOOSE m \in S : \A x \in S : x <= m

\* C10: with more than one round, the first slot of an input's filtered
\* counters is the maximum of the pfc1 values that occur more than
\* 2 * max_outliers times in its history, and 0 if there is none.
C10_FilteredFirstCounter ==
    (FilterRan /\ num_measurements > 1) =>
        \A k \in 1..N :
            LET pfc1 == pfc_readings[k][1]
            IN  filtered_pfc_readings[k][1] =
                    MaxOf({ v \in Range(pfc1) : Occ(v, pfc1) > 2 * CONF.max_outliers })

\* C10 witness: max_outliers = 1 and pfc1 history [2, 1, 1, 1] give 1: the
\* single 2 does not count
C10_Witness ==
    /\ FilterRan
    /\ CONF.max_outliers = 1
    /\ \E k \in 1..N :
         /\ pfc_readings[k][1] = << 2, 1, 1, 1 >>
         /\ filtered_pfc_readings[k][1] = 1

\* C11 as stated: every non-empty batch that returns has called the coverage
\* hook exactly once.
C11_HookAlwaysOnce ==
    (ReturnedOk /\ N > 0) => Len(hooklog) = 1

\* C11 amended: a non-empty batch that returns has called the coverage hook
\* exactly once if a coverage collector is attached (self.coverage is set)
\* and not at all otherwise; the call comes after the last round, carries one
\* counter triple per input in input order, the filtered counters when the
\* round count is not 1; a batch that ends in an error has not called it.
C11_HookOncePerBatch ==
    /\ (ReturnedOk /\ N > 0) => Len(hooklog) = IF coverage THEN 1 ELSE 0
    /\ hooklog # << >> =>
         /\ coverage
         /\ Len(hooklog) = 1
         /\ pc \in {"return", "done"}
         /\ round = num_measurements
         /\ Calls("measure") = num_measurements
         /\ Len(hooklog[1]) = N
         /\ \A k \in 1..N : Len(hooklog[1][k]) = 3
         /\ num_measurements # 1 => hooklog[1] = filtered_pfc_readings
    /\ result.kind = "error" => hooklog = << >>

\* C11 witness: a two-input batch of two rounds has returned and the hook
\* got the two filtered triples, which differ
C11_Witness ==
    /\ ReturnedOk
    /\ N = 2
    /\ num_measurements = 2
    /\ Len(hooklog) = 1
    /\ hooklog[1] = filtered_pfc_readings
    /\ hooklog[1][1][1] = 1
    /\ hooklog[1][2][1] = 2

\* C12: with a single round the triple the hook gets for input k is the
\* (pfc1, pfc2, pfc3) the device reported for input k in that round, with no
\* threshold applied, whatever max_outliers is.
C12_SingleRoundRawCounters ==
    (num_measurements = 1 /\ hooklog # << >>) =>
        /\ Len(hooklog[1]) = N
        /\ Len(reported[1]) = N
        /\ \A k \in 1..N : hooklog[1][k] = reported[1][k].pfc

\* C12 witness: one round, max_outliers = 1, two inputs with different
\* counter rows, both forwarded as reported
C12_Witness ==
    /\ ReturnedOk
    /\ num_measurements = 1
    /\ CONF.max_outliers = 1
    /\ N = 2
    /\ Len(hooklog) = 1
    /\ hooklog[1] = << <<2, 0, 1>>, <<1, 2, 3>> >>

\* every one of the num_measurements rounds gave a stream with the trace
\* column and one row per input
AllRoundsOutput ==
    /\ Calls("measure") = num_measurements
    /\ ~TraceColumnMissing
    /\ \A r \in 1..Len(reported) : Len(reported[r]) = N

\* C13: a non-empty batch of more than one round in which every round
\* produced output does not end in an error; it returns one trace per input,
\* in input order, and the trace of an input none of whose trace values occurs
\* more than max_outliers times is 0.
C13_AlwaysReturns ==
    (N > 0 /\ num_measurements > 1 /\ AllRoundsOutput) =>
        /\ result.kind # "error"
        /\ pc = "done" =>
             /\ ReturnedOk
             /\ Len(result.value) = N
             /\ \A k \in 1..N :
                  /\ result.value[k] = merged_traces[k]
                  /\ (\A v \in Range(traces[k]) : Occ(v, traces[k]) <= CONF.max_outliers)
                         => result.value[k] = {}

\* C13 witness: max_outliers = 2 = num_measurements; input 1 saw two
\* different values once each, input 2 saw 0b010 twice, and both get 0
C13_Witness ==
    /\ ReturnedOk
    /\ AllRoundsOutput
    /\ CONF.max_outliers = 2
    /\ num_measurements = 2
    /\ N = 2
    /\ traces = << << {0}, {1} >>, << {1}, {1} >> >>
    /\ result.value = << {}, {} >>

\* the kind of the e-th device access of a call
ExpectedOp(e) ==
    IF e = 1 THEN "probe"
    ELSE IF e = 2 THEN "write_n_inputs"
    ELSE IF e = 3 THEN "write_inputs"
    ELSE IF e = 4 THEN "read_n_inputs"
    ELSE "measure"

\* C14: within a batch the count declaration is written, then the payload
\* (the inputs in batch order), then the count is re-read, each once, and
\* every measurement comes after the re-read.
C14_LoadOrder ==
    /\ \A e \in 1..Len(devlog) :
         /\ devlog[e].op = ExpectedOp(e)
         /\ devlog[e].op = "write_n_inputs" => devlog[e].arg = << N >>
         /\ devlog[e].op = "write_inputs" => devlog[e].arg = inputs
    /\ pc \in {"loop", "rows", "after_loop", "merge", "filter", "hook", "return"}
           => Calls("read_n_inputs") = 1

\* C14 witness: a two-input batch has been loaded in order and measured twice
C14_Witness ==
    /\ N = 2
    /\ Calls("measure") = 2
    /\ devlog[2] = Dev("write_n_inputs", << 2 >>)
    /\ devlog[3] = Dev("write_inputs", << 1, 2 >>)
    /\ devlog[4] = Dev("read_n_inputs", << 2 >>)

\* the rounds that failed: no trace column, or a row beyond the last input
FailedRounds ==
    LET measured == SelectSeq(devlog, LAMBDA d : d.op = "measure")
    IN  { r \in 1..Len(measured) :
            \/ Len(reported[r]) > N
            \/ measured[r].arg = << FALSE >> }

\* C15: a failed round ends the batch and is not retried: when round j has
\* failed, the call has ended in an error, exactly j measurements have been
\* triggered, and count and payload have been written once.
C15_NoRetry ==
    FailedRounds # {} =>
        /\ FailedRounds = { Calls("measure") }
        /\ pc = "done"
        /\ result.kind = "error"
        /\ Calls("write_n_inputs") = 1
        /\ Calls("write_inputs") = 1

\* C15 witness: round 2 of 3 failed and two measurements were triggered
C15_Witness ==
    /\ num_measurements = 3
    /\ FailedRounds = {2}
    /\ Calls("measure") = 2
    /\ pc = "done"

\* every row read so far has been appended to its input's histories
RowsAppended ==
    \A k \in 1..N :
        /\ Len(traces[k]) = Cardinality(RoundsWith(k))
        /\ \A s \in 1..3 : Len(pfc_readings[k][s]) = Cardinality(RoundsWith(k))

\* C16: measurements are triggered one after another, each only when all
\* rows of the rounds before it have been appended to the histories; the
\* merge starts only after num_measurements measurements, and a non-empty
\* batch that returns has triggered exactly num_measurements of them.
C16_SequentialRounds ==
    [][ /\ Calls("measure")' # Calls("measure") =>
             /\ pc = "loop"
             /\ Calls("measure") = round
             /\ Calls("measure")' = round + 1
             /\ round < num_measurements
             /\ RowsAppended
        /\ pc' = "merge" =>
             /\ Calls("measure") = num_measurements
             /\ RowsAppended
        /\ (pc' = "done" /\ result'.kind = "return" /\ N > 0) =>
             /\ Calls("measure")' = num_measurements'
             /\ round_count >= 1 => Calls("measure")' = round_count ]_vars

\* C16 witness: a two-input batch of two rounds has returned after two
\* measurements, with both rounds in every history
C16_Witness ==
    /\ ReturnedOk
    /\ N = 2
    /\ round_count = 2
    /\ Calls("measure") = 2
    /\ \A k \in 1..N : Len(traces[k]) = 2

\* the histories of lines 98-99 exist
Allocated == Calls("read_n_inputs") = 1 /\ ~LoadReportedZero

\* C17: once allocated there is one trace history and one counter history
\* entry per input, no history is longer than num_measurements, and after r
\* completed rounds that all held one row per input every history has
\* length r.
C17_HistoryShape ==
    Allocated =>
        /\ Len(traces) = N
        /\ Len(pfc_readings) = N
        /\ \A k \in 1..N :
             /\ Len(traces[k]) <= num_measurements
             /\ Len(pfc_readings[k]) = 3
             /\ \A s \in 1..3 : Len(pfc_readings[k][s]) <= num_measurements
        /\ (pc # "rows" /\ \A r \in 1..Len(reported) : Len(reported[r]) = N) =>
             \A k \in 1..N :
                 /\ Len(traces[k]) = round
                 /\ \A s \in 1..3 : Len(pfc_readings[k][s]) = round

\* C17 witness: two of three rounds are complete for a one-input batch and
\* its histories have length 2
C17_Witness ==
    /\ pc = "loop"
    /\ N = 1
    /\ num_measurements = 3
    /\ round = 2
    /\ Len(reported[1]) = 1
    /\ Len(reported[2]) = 1
    /\ Len(traces[1]) = 2
    /\ Len(pfc_readings[1][3]) = 2

\* C18: with more than one round the second and third slot of every input's
\* filtered counters, and of the triple the hook gets, are 0 whatever pfc2
\* and pfc3 the device reported.
C18_OtherSlotsZero ==
    (FilterRan /\ num_measurements > 1) =>
        \A k \in 1..N :
            /\ filtered_pfc_readings[k][2] = 0
            /\ filtered_pfc_readings[k][3] = 0
            /\ hooklog # << >> => hooklog[1][k][2] = 0 /\ hooklog[1][k][3] = 0

\* C18 witness: max_outliers = 0, the device reported (1, 2, 3) twice and
\* the hook got (1, 0, 0)
C18_Witness ==
    /\ ReturnedOk
    /\ CONF.max_outliers = 0
    /\ N >= 1
    /\ pfc_readings[1] = << <<1, 1>>, <<2, 2>>, <<3, 3>> >>
    /\ Len(hooklog) = 1
    /\ hooklog[1][1] = << 1, 0, 0 >>

\* the sequence h with entries a and b exchanged
Swapped(h, a, b) ==
    [j \in 1..Len(h) |-> IF j = a THEN h[b] ELSE IF j = b THEN h[a] ELSE h[j]]

\* C19: with more than one round the merged trace and the filtered first
\* counter of an input do not change when two rounds of its history are
\* exchanged.  Every history with the same readings in another order is the
\* history of a reachable state too and exchanges generate every order, so
\* the results are the same for every permutation of a history.
C19_OrderIndependent ==
    (pc = "return" /\ num_measurements > 1) =>
        \A k \in 1..N :
            \A a, b \in 1..Len(traces[k]) :
                a < b =>
                    /\ MergeOne(Swapped(traces[k], a, b)).merged = merged_traces[k]
                    /\ FilterOne(Swapped(pfc_readings[k][1], a, b)).filtered
                           = filtered_pfc_readings[k][1]

\* C19 witness: an input whose two rounds differ in trace and in pfc1, the
\* larger pfc1 first, has been merged
C19_Witness ==
    /\ pc = "return"
    /\ CONF.max_outliers = 0
    /\ \E k \in 1..N :
         /\ traces[k] = << {1}, {0} >>
         /\ pfc_readings[k][1] = << 2, 1 >>
         /\ merged_traces[k] = {0, 1}
         /\ filtered_pfc_readings[k][1] = 2

\* the histories an input can have under this configuration: up to
\* num_measurements rows, as traces and as counter rows
TraceHists ==
    UNION { [1..m -> { RowTrace(row) : row \in Rows }] : m \in 0..num_measurements }
PfcHists == UNION { [1..m -> PfcCells] : m \in 0..num_measurements }

\* pfc_readings[i] of an input whose rows had the counters h
SlotLists(h) == [s \in 1..3 |-> [x \in 1..Len(h) |-> h[x][s]]]

\* C20: the merged trace and the filtered counters of input k are those of
\* every batch of the same size, round count and configuration whose readings
\* for input k are the same, whatever the readings of the other inputs.
C20_PerInput ==
    (pc = "return" /\ num_measurements > 1) =>
        \A k \in 1..N :
            /\ \A T \in [(1..N) \ {k} -> TraceHists] :
                   MergeAll([j \in 1..N |-> IF j = k THEN traces[k] ELSE T[j]])[k].merged
                       = merged_traces[k]
            /\ \A P \in [(1..N) \ {k} -> PfcHists] :
                   FilterAll([j \in 1..N |->
                                 IF j = k THEN pfc_readings[k] ELSE SlotLists(P[j])])[k]
                       = filtered_pfc_readings[k]

\* C20 witness: max_outliers = 1 and two inputs with the same single value
\* in both rounds: input 2, coming after input 1, has the same result
C20_Witness ==
    /\ pc = "return"
    /\ CONF.max_outliers = 1
    /\ N = 2
    /\ traces = << << {0}, {0} >>, << {0}, {0} >> >>
    /\ merged_traces = << {0}, {0} >>

====
